---- MODULE Spec2Model ----
(***************************************************************************)
(* callinit: a one-window utility that normalizes a phone number and       *)
(* publishes it once from a background thread (src/main.rs).                *)
(*                                                                         *)
(* Strings are sequences of one-character strings.  Option<T> is a         *)
(* sequence of length 0 (None) or 1 (Some(x)).                             *)
(***************************************************************************)
EXTENDS Integers, Sequences, FiniteSets, TLC

VARIABLES
    input_text,            \* MyApp.input_text
    should_focus,          \* MyApp.should_focus
    http_sender,           \* MyApp.http_sender: Option<Sender>
    waiting_for_response,  \* MyApp.waiting_for_response
    auth_token,            \* MyApp.auth_token: Option<String>
    country_code,          \* MyApp.country_code: Option<String>
    chan,                  \* messages queued on the mpsc channel
    threads,               \* publish threads spawned so far
    requests,              \* requests handed to the HTTP client (the outbound sink)
    phase,                 \* window/process lifecycle: open, closing, closed, exited
    closeRequests          \* number of ViewportCommand::Close commands issued


vars == <<input_text, should_focus, http_sender, waiting_for_response,
          auth_token, country_code, chan, threads, requests, phase,
          closeRequests>>

----------------------------------------------------------------------------
(* Bounds *)

\* longest text the user types into the field
MaxLen == 2

\* close commands after which the toolkit runs no further frame
MaxCloseRequests == 2

\* characters the user can type: a trunk zero, another digit, a plus, a letter
Chars == {"0", "1", "+", "a"}

----------------------------------------------------------------------------
(* Option and string helpers *)

None == <<>>

Some(x) == <<x>>

is_ascii_digit(c) == c \in {"0", "1", "2", "3", "4", "5", "6", "7", "8", "9"}

is_whitespace(c) == c \in {" ", "\t", "\n"}

starts_with(s, c) == Len(s) > 0 /\ s[1] = c

RECURSIVE trim_start(_)
trim_start(s) ==
    IF s # <<>> /\ is_whitespace(Head(s)) THEN trim_start(Tail(s)) ELSE s

RECURSIVE trim_end(_)
trim_end(s) ==
    IF s # <<>> /\ is_whitespace(s[Len(s)])
    THEN trim_end(SubSeq(s, 1, Len(s) - 1))
    ELSE s

trim(s) == trim_end(trim_start(s))

RECURSIVE trim_start_matches(_, _)
trim_start_matches(s, c) ==
    IF s # <<>> /\ Head(s) = c THEN trim_start_matches(Tail(s), c) ELSE s

----------------------------------------------------------------------------
(* Clipboard probe and phone-shape heuristic *)


\* variant: a trimmed text of exactly 20 characters is already too long
looks_like_phone_number_len_ge(text) ==
    LET trimmed == trim(text)
        digit_count == Cardinality({i \in 1..Len(trimmed) : is_ascii_digit(trimmed[i])})
        valid_chars == \A i \in 1..Len(trimmed) :
                          \/ is_ascii_digit(trimmed[i])
                          \/ trimmed[i] \in {"+", "-", " ", "(", ")"}
    IN  IF trimmed = <<>> \/ Len(trimmed) >= 20
        THEN FALSE
        ELSE digit_count >= 6 /\ valid_chars

looks_like_phone_number(text) ==
    LET trimmed == trim(text)
        digit_count == Cardinality({i \in 1..Len(trimmed) : is_ascii_digit(trimmed[i])})
        valid_chars == \A i \in 1..Len(trimmed) :
                          \/ is_ascii_digit(trimmed[i])
                          \/ trimmed[i] \in {"+", "-", " ", "(", ")"}
    IN  IF trimmed = <<>> \/ Len(trimmed) > 20
        THEN FALSE
        ELSE digit_count >= 6 /\ valid_chars


\* variant: the accepted clipboard text is returned untrimmed
check_clipboard_for_phone_number_untrimmed(clipboard) ==
    IF clipboard = None
    THEN <<>>
    ELSE IF looks_like_phone_number(clipboard[1])
         THEN clipboard[1]
         ELSE <<>>

\* clipboard: None when the clipboard or its text is unavailable
check_clipboard_for_phone_number(clipboard) ==
    IF clipboard = None
    THEN <<>>
    ELSE IF looks_like_phone_number(clipboard[1])
         THEN trim(clipboard[1])
         ELSE <<>>

\* clipboard contents tried at startup
\* "+1 (415) 555-0123": 17 characters, 11 digits
Phone17 ==
    <<"+", "1", " ", "(", "4", "1", "5", ")", " ", "5", "5", "5", "-", "0", "1", "2", "3">>

\* the same number made 20 and 21 characters long
Phone20 == Phone17 \o <<"4", "5", "6">>

Phone21 == Phone20 \o <<"7">>

ClipboardSamples ==
    { None,
      Some(<<"a", "0", "1">>),
      Some(<<" ", "0", "1", "0", "+", "0", "1", "1", " ">>),
      Some(<<>>),
      Some(<<" ", "\t">>),
      Some(<<"1", "2", "3", "4", "5">>),
      Some(<<"1", "2", "3", "4", "5", "6", "a">>),
      Some(<<"(", "1", "2", ")", " ", "3", "4", "-", "5">>),
      Some(Phone17),
      Some(Phone20),
      Some(Phone21),
      Some(<<" ">> \o Phone20 \o <<"\n">>) }

\* configured country codes and tokens tried at startup
CountryCodes == { None, Some(<<"4", "9">>) }

AuthTokens == { None, Some(<<"k">>) }

----------------------------------------------------------------------------
(* E.164 normalizer *)

\* variant: every leading zero is dropped, not just the trunk zero
format_e164_strip_zeros(number) ==
    LET digits == SelectSeq(number, LAMBDA c : is_ascii_digit(c) \/ c = "+")
    IN  IF starts_with(digits, "+")
        THEN digits
        ELSE IF country_code # None
             THEN <<"+">> \o country_code[1] \o trim_start_matches(digits, "0")
             ELSE digits


\* variant: the country code is prepended even when the number starts with a plus
format_e164_no_plus_check(number) ==
    LET digits == SelectSeq(number, LAMBDA c : is_ascii_digit(c) \/ c = "+")
    IN  IF country_code # None
        THEN LET cc == country_code[1]
             IN  IF starts_with(digits, "0")
                 THEN <<"+">> \o cc \o SubSeq(digits, 2, Len(digits))
                 ELSE <<"+">> \o cc \o digits
        ELSE digits


\* variant: a plus is retained only at the front of the number
format_e164_first_plus_only(number) ==
    LET kept == SelectSeq(number, LAMBDA c : is_ascii_digit(c) \/ c = "+")
        digits == IF starts_with(kept, "+")
                  THEN <<"+">> \o SelectSeq(Tail(kept), is_ascii_digit)
                  ELSE SelectSeq(kept, is_ascii_digit)
    IN  IF starts_with(digits, "+")
        THEN digits
        ELSE IF country_code # None
             THEN LET cc == country_code[1]
                  IN  IF starts_with(digits, "0")
                      THEN <<"+">> \o cc \o SubSeq(digits, 2, Len(digits))
                      ELSE <<"+">> \o cc \o digits
             ELSE digits


\* variant: a number without digits stays empty even with a country code
format_e164_empty_stays_empty(number) ==
    LET digits == SelectSeq(number, LAMBDA c : is_ascii_digit(c) \/ c = "+")
    IN  IF digits = <<>> \/ starts_with(digits, "+")
        THEN digits
        ELSE IF country_code # None
             THEN LET cc == country_code[1]
                  IN  IF starts_with(digits, "0")
                      THEN <<"+">> \o cc \o SubSeq(digits, 2, Len(digits))
                      ELSE <<"+">> \o cc \o digits
             ELSE digits

format_e164(number) ==
    LET digits == SelectSeq(number, LAMBDA c : is_ascii_digit(c) \/ c = "+")
    IN  IF starts_with(digits, "+")
        THEN digits
        ELSE IF country_code # None
             THEN LET cc == country_code[1]
                  IN  IF starts_with(digits, "0")
                      THEN <<"+">> \o cc \o SubSeq(digits, 2, Len(digits))
                      ELSE <<"+">> \o cc \o digits
             ELSE digits

----------------------------------------------------------------------------
(* Publish request built by the thread *)

Str_Call == <<"C", "a", "l", "l", " ">>

Str_Bearer == <<"B", "e", "a", "r", "e", "r", " ">>

Str_tel == <<"t", "e", "l", ":">>

Str_sms == <<"s", "m", "s", ":">>

Str_wa == <<"h", "t", "t", "p", "s", ":", "/", "/", "w", "a", ".", "m", "e", "/">>

\* variant: the WhatsApp URL keeps the number as it is
BuildRequest_keep_plus(text, token) ==
    [ title         |-> Str_Call \o text,
      authorization |-> IF token # None THEN Some(Str_Bearer \o token[1]) ELSE None,
      message       |-> text,
      call_url      |-> Str_tel \o text,
      sms_url       |-> Str_sms \o text,
      whatsapp_url  |-> Str_wa \o text ]


\* variant: the Authorization header carries the bare token
BuildRequest_bare_token(text, token) ==
    [ title         |-> Str_Call \o text,
      authorization |-> IF token # None THEN Some(token[1]) ELSE None,
      message       |-> text,
      call_url      |-> Str_tel \o text,
      sms_url       |-> Str_sms \o text,
      whatsapp_url  |-> Str_wa \o trim_start_matches(text, "+") ]

BuildRequest(text, token) ==
    [ title         |-> Str_Call \o text,
      authorization |-> IF token # None THEN Some(Str_Bearer \o token[1]) ELSE None,
      message       |-> text,
      call_url      |-> Str_tel \o text,
      sms_url       |-> Str_sms \o text,
      whatsapp_url  |-> Str_wa \o trim_start_matches(text, "+") ]

----------------------------------------------------------------------------
(* Initial state: MyApp::new *)

Init ==
    /\ \E clipboard \in ClipboardSamples :
           input_text = check_clipboard_for_phone_number(clipboard)
    /\ should_focus = TRUE
    /\ http_sender = Some("tx")
    /\ waiting_for_response = FALSE
    /\ auth_token \in AuthTokens
    /\ country_code \in CountryCodes
    /\ chan = <<>>
    /\ threads = <<>>
    /\ requests = <<>>
    /\ phase = "open"
    /\ closeRequests = 0

----------------------------------------------------------------------------
(* UI thread *)

\* ctx.send_viewport_cmd(ViewportCommand::Close), issued n times in a frame
send_viewport_cmd_Close(n) ==
    /\ closeRequests' = closeRequests + n
    /\ phase' = IF n > 0 THEN "closing" ELSE phase

NewThread(text) ==
    [ pc         |-> "spawned",
      text       |-> text,
      auth_token |-> auth_token,
      result     |-> "pending",
      sends      |-> 0,
      delivered  |-> 0 ]

\* variant: the sender is cloned instead of taken and the waiting flag is not set
send_http_request_clone_sender(self_input_text) ==
    IF http_sender # None
    THEN LET text == format_e164(self_input_text)
         IN  /\ UNCHANGED <<http_sender, waiting_for_response>>
             /\ IF text = <<>>
                THEN UNCHANGED threads
                ELSE threads' = Append(threads, NewThread(text))
    ELSE UNCHANGED <<http_sender, threads, waiting_for_response>>

\* variant: the empty-number check is missing
send_http_request_no_empty_check(self_input_text) ==
    IF http_sender # None
    THEN LET text == format_e164(self_input_text)
         IN  /\ http_sender' = None
             /\ threads' = Append(threads, NewThread(text))
             /\ waiting_for_response' = TRUE
    ELSE UNCHANGED <<http_sender, threads, waiting_for_response>>

send_http_request(self_input_text) ==
    IF http_sender # None
    THEN LET text == format_e164(self_input_text)
         IN  /\ http_sender' = None
             /\ IF text = <<>>
                THEN UNCHANGED <<threads, waiting_for_response>>
                ELSE /\ threads' = Append(threads, NewThread(text))
                     /\ waiting_for_response' = TRUE
    ELSE UNCHANGED <<http_sender, threads, waiting_for_response>>

\* what one frame's key events can make of the text field
Edits(text) ==
    {text}
    \cup {Append(text, c) : c \in (IF Len(text) < MaxLen THEN Chars ELSE {})}
    \cup (IF text # <<>> THEN {SubSeq(text, 1, Len(text) - 1)} ELSE {})

\* variant: a received completion signal does not close the window
update_recv_no_close(new_text, lost_focus, enter, escape) ==
    /\ chan' = IF chan # <<>> THEN Tail(chan) ELSE chan
    /\ input_text' = new_text
    /\ should_focus' = FALSE
    /\ IF lost_focus /\ enter /\ new_text # <<>> /\ ~waiting_for_response
       THEN send_http_request(new_text)
       ELSE UNCHANGED <<http_sender, threads, waiting_for_response>>
    /\ send_viewport_cmd_Close(IF escape THEN 1 ELSE 0)

\* variant: Escape is handled only while no request is in flight
update_escape_when_idle(new_text, lost_focus, enter, escape) ==
    IF chan # <<>>
    THEN /\ chan' = Tail(chan)
         /\ send_viewport_cmd_Close(1)
         /\ UNCHANGED <<input_text, should_focus, http_sender,
                        waiting_for_response, threads>>
    ELSE /\ input_text' = new_text
         /\ should_focus' = FALSE
         /\ IF lost_focus /\ enter /\ new_text # <<>> /\ ~waiting_for_response
            THEN send_http_request(new_text)
            ELSE UNCHANGED <<http_sender, threads, waiting_for_response>>
         /\ send_viewport_cmd_Close(IF escape /\ ~waiting_for_response THEN 1 ELSE 0)
         /\ UNCHANGED chan

\* variant: no early return after the completion signal closes the window
update_no_return(new_text, lost_focus, enter, escape) ==
    /\ chan' = IF chan # <<>> THEN Tail(chan) ELSE chan
    /\ input_text' = new_text
    /\ should_focus' = FALSE
    /\ IF lost_focus /\ enter /\ new_text # <<>> /\ ~waiting_for_response
       THEN send_http_request(new_text)
       ELSE UNCHANGED <<http_sender, threads, waiting_for_response>>
    /\ send_viewport_cmd_Close((IF chan # <<>> THEN 1 ELSE 0) + (IF escape THEN 1 ELSE 0))


\* variant: Enter is handled without looking at whether the field is empty
update_no_empty_guard(new_text, lost_focus, enter, escape) ==
    IF chan # <<>>
    THEN /\ chan' = Tail(chan)
         /\ send_viewport_cmd_Close(1)
         /\ UNCHANGED <<input_text, should_focus, http_sender,
                        waiting_for_response, threads>>
    ELSE /\ input_text' = new_text
         /\ should_focus' = FALSE
         /\ IF lost_focus /\ enter /\ ~waiting_for_response
            THEN send_http_request(new_text)
            ELSE UNCHANGED <<http_sender, threads, waiting_for_response>>
         /\ send_viewport_cmd_Close(IF escape THEN 1 ELSE 0)
         /\ UNCHANGED chan

update(new_text, lost_focus, enter, escape) ==
    IF chan # <<>>
    THEN /\ chan' = Tail(chan)
         /\ send_viewport_cmd_Close(1)
         /\ UNCHANGED <<input_text, should_focus, http_sender,
                        waiting_for_response, threads>>
    ELSE /\ input_text' = new_text
         /\ should_focus' = FALSE
         /\ IF lost_focus /\ enter /\ new_text # <<>> /\ ~waiting_for_response
            THEN send_http_request(new_text)
            ELSE UNCHANGED <<http_sender, threads, waiting_for_response>>
         /\ send_viewport_cmd_Close(IF escape THEN 1 ELSE 0)
         /\ UNCHANGED chan

\* One call of update by the event loop.  update itself never checks whether
\* close was already requested, and the toolkit hands a Close command for the
\* root viewport to the following frame before the loop ends, so frames are
\* possible until the window is torn down.
Frame ==
    /\ phase \in {"open", "closing"}
    /\ closeRequests < MaxCloseRequests
    /\ \E new_text \in Edits(input_text), lost_focus, enter, escape \in BOOLEAN :
           update(new_text, lost_focus, enter, escape)
    /\ UNCHANGED <<auth_token, country_code, requests>>

----------------------------------------------------------------------------
(* Publish thread *)

ThreadVarsUnchanged ==
    UNCHANGED <<input_text, should_focus, http_sender, waiting_for_response,
                auth_token, country_code, phase, closeRequests>>

\* variant: the thread normalizes the text field again when it builds the request
ThreadHttpSend_reads_field(i) ==
    /\ phase # "exited"
    /\ threads[i].pc = "spawned"
    /\ requests' = Append(requests, BuildRequest(format_e164(input_text), threads[i].auth_token))
    /\ threads' = [threads EXCEPT ![i].pc = "inflight"]
    /\ UNCHANGED chan
    /\ ThreadVarsUnchanged

\* the closure builds the request and hands it to the blocking client
ThreadHttpSend(i) ==
    /\ phase # "exited"
    /\ threads[i].pc = "spawned"
    /\ requests' = Append(requests, BuildRequest(threads[i].text, threads[i].auth_token))
    /\ threads' = [threads EXCEPT ![i].pc = "inflight"]
    /\ UNCHANGED chan
    /\ ThreadVarsUnchanged

\* variant: the Err arm leaves the thread without signalling
ThreadHttpReturn_err_exits(i, result) ==
    /\ phase # "exited"
    /\ threads[i].pc = "inflight"
    /\ threads' = [threads EXCEPT ![i].pc = IF result = "err" THEN "done" ELSE "returned",
                                  ![i].result = result]
    /\ UNCHANGED <<chan, requests>>
    /\ ThreadVarsUnchanged

\* .send() returns Ok(response) or Err(e)
ThreadHttpReturn(i, result) ==
    /\ phase # "exited"
    /\ threads[i].pc = "inflight"
    /\ threads' = [threads EXCEPT ![i].pc = "returned", ![i].result = result]
    /\ UNCHANGED <<chan, requests>>
    /\ ThreadVarsUnchanged


\* variant: the send waits for a receiver instead of failing when it is gone
ThreadSignal_requires_receiver(i) ==
    /\ phase \in {"open", "closing"}
    /\ threads[i].pc = "returned"
    /\ chan' = Append(chan, "complete")
    /\ threads' = [threads EXCEPT ![i].pc = "done",
                                  ![i].sends = @ + 1,
                                  ![i].delivered = @ + 1]
    /\ UNCHANGED requests
    /\ ThreadVarsUnchanged

\* let _ = sender.send("complete"): queued while the receiver exists, else dropped
ThreadSignal(i) ==
    /\ phase # "exited"
    /\ threads[i].pc = "returned"
    /\ LET alive == phase \in {"open", "closing"}
       IN  /\ chan' = IF alive THEN Append(chan, "complete") ELSE chan
           /\ threads' = [threads EXCEPT ![i].pc = "done",
                                         ![i].sends = @ + 1,
                                         ![i].delivered = IF alive THEN @ + 1 ELSE @]
    /\ UNCHANGED requests
    /\ ThreadVarsUnchanged

----------------------------------------------------------------------------
(* Shutdown: run_native returns, MyApp is dropped, main returns *)

\* The event loop ends: MyApp is dropped and with it the receiver (queued
\* messages are lost) and any sender still held.
Teardown ==
    /\ phase = "closing"
    /\ phase' = "closed"
    /\ chan' = <<>>
    /\ http_sender' = None
    /\ UNCHANGED <<input_text, should_focus, waiting_for_response, auth_token,
                   country_code, threads, requests, closeRequests>>

\* main returns: a publish thread that is still running ends with the process.
ProcessExit ==
    /\ phase = "closed"
    /\ phase' = "exited"
    /\ UNCHANGED <<input_text, should_focus, http_sender, waiting_for_response,
                   auth_token, country_code, chan, threads, requests,
                   closeRequests>>

----------------------------------------------------------------------------

ThreadStep ==
    \E i \in 1..Len(threads) :
        \/ ThreadHttpSend(i)
        \/ \E result \in {"ok", "err"} : ThreadHttpReturn(i, result)
        \/ ThreadSignal(i)

Next ==
    \/ Frame
    \/ \E i \in 1..Len(threads) : ThreadHttpSend(i)
    \/ \E i \in 1..Len(threads), result \in {"ok", "err"} : ThreadHttpReturn(i, result)
    \/ \E i \in 1..Len(threads) : ThreadSignal(i)
    \/ Teardown
    \/ ProcessExit

Spec == Init /\ [][Next]_vars

LiveSpec == Spec /\ WF_vars(Frame) /\ WF_vars(ThreadStep)

----------------------------------------------------------------------------
(* Properties *)

\* the step is a frame in which Enter commits the text field holding new_text
EnterFrame(new_text) ==
    /\ Frame
    /\ \E escape \in BOOLEAN : update(new_text, TRUE, TRUE, escape)

\* the step is a frame in which Escape is pressed
EscapeFrame ==
    /\ Frame
    /\ \E lost_focus, enter \in BOOLEAN : update(input_text', lost_focus, enter, TRUE)

\* C1: at most one publish thread is ever spawned and at most one request
\* ever leaves the program, whatever frames follow the first dispatch.
C1_AtMostOneDispatch ==
    /\ Len(threads) <= 1
    /\ Len(requests) <= 1

\* C1 witness: a request is in flight, the window is open and the field has
\* been edited to a different number that a further Enter could submit.
C1_Witness ==
    /\ Len(requests) = 1
    /\ phase = "open"
    /\ waiting_for_response
    /\ threads[1].pc = "inflight"
    /\ format_e164(input_text) # <<>>
    /\ format_e164(input_text) # threads[1].text

\* C2 (as claimed): whenever the app is Idle (nothing dispatched, not
\* waiting, window open), an Enter press on a field whose normalization is
\* non-empty dispatches the publish task; in particular after an earlier
\* Enter whose normalization was empty.
C2_LaterEnterDispatches ==
    [][ \A new_text \in Edits(input_text) :
          ( /\ phase = "open"
            /\ threads = <<>>
            /\ ~waiting_for_response
            /\ new_text # <<>>
            /\ format_e164(new_text) # <<>>
            /\ EnterFrame(new_text) )
          => threads' # <<>> ]_vars

\* C3: no thread or request ever carries an empty number, and a frame in
\* which Enter is pressed on a field whose normalization is empty spawns
\* nothing, sends nothing and leaves waiting_for_response as it was (false
\* when it was false).
C3_NoEmptyDispatch ==
    /\ [](/\ \A i \in 1..Len(threads) : threads[i].text # <<>>
          /\ \A j \in 1..Len(requests) : requests[j].message # <<>>)
    /\ [][ \A new_text \in Edits(input_text) :
             (format_e164(new_text) = <<>> /\ EnterFrame(new_text))
             => /\ threads' = threads
                /\ requests' = requests
                /\ waiting_for_response' = waiting_for_response ]_vars

\* C3 witness: Enter was pressed on a non-empty field that normalizes to
\* nothing: the sender is gone, yet nothing was spawned and the app is not
\* waiting.
C3_Witness ==
    /\ phase = "open"
    /\ http_sender = None
    /\ input_text # <<>>
    /\ format_e164(input_text) = <<>>
    /\ threads = <<>>
    /\ requests = <<>>
    /\ ~waiting_for_response

\* C4: a frame that starts with a completion signal on the channel requests
\* window close, whatever keys are pressed in it.
C4_SignalClosesNextFrame ==
    [][ (chan # <<>> /\ Frame)
        => (closeRequests' = closeRequests + 1 /\ phase' = "closing") ]_vars

\* C4 witness: the thread's signal was delivered and a frame has consumed
\* it, which is the only close request so far.
C4_Witness ==
    /\ Len(threads) = 1
    /\ threads[1].delivered = 1
    /\ chan = <<>>
    /\ phase = "closing"
    /\ closeRequests = 1

\* C5: every frame in which Escape is pressed requests window close, in
\* whatever state the frame starts.
C5_EscapeCloses ==
    [][ EscapeFrame
        => (closeRequests' = closeRequests + 1 /\ phase' = "closing") ]_vars

\* C5 witness: close was requested while the request was still in flight,
\* before any signal was sent, so Escape requested it.
C5_Witness ==
    /\ Len(threads) = 1
    /\ threads[1].pc \in {"spawned", "inflight", "returned"}
    /\ waiting_for_response
    /\ closeRequests = 1
    /\ phase = "closing"

\* C6 (as claimed): every publish thread that has run to its end has put
\* exactly one completion signal on the channel, after either outcome of the
\* HTTP call, and none is sent before the HTTP call has returned.
C6_ExactlyOneSignalDelivered ==
    \A i \in 1..Len(threads) :
        /\ threads[i].pc = "done"
           => (threads[i].sends = 1 /\ threads[i].delivered = 1)
        /\ threads[i].pc \in {"spawned", "inflight"}
           => (threads[i].sends = 0 /\ threads[i].delivered = 0)

\* C6 (amended): every publish thread that has run to its end has called
\* send exactly once, after the HTTP call returned Ok or Err, and never
\* before; the signal is on the channel exactly once unless the receiver
\* had already been dropped with the window, in which case it is discarded.
C6_ExactlyOneSend ==
    \A i \in 1..Len(threads) :
        /\ threads[i].pc = "done"
           => /\ threads[i].sends = 1
              /\ threads[i].result \in {"ok", "err"}
              /\ threads[i].delivered \in {0, 1}
              /\ threads[i].delivered = 0 => phase \in {"closed", "exited"}
        /\ threads[i].pc \in {"spawned", "inflight", "returned"}
           => (threads[i].sends = 0 /\ threads[i].delivered = 0)
        /\ threads[i].pc \in {"spawned", "inflight"}
           => threads[i].result = "pending"

\* C6 witness: the HTTP call failed and the thread still delivered its one
\* signal, which waits on the channel of the open window.
C6_Witness ==
    /\ Len(threads) = 1
    /\ threads[1].pc = "done"
    /\ threads[1].result = "err"
    /\ threads[1].delivered = 1
    /\ chan = <<"complete">>
    /\ phase = "open"

\* C7: once a submission has been dispatched, window close is eventually
\* requested, whether the HTTP call succeeds or fails (the thread and the
\* frames being scheduled fairly).
C7_EventuallyCloses == (threads # <<>>) ~> (phase # "open")

\* C7 witness: the HTTP call failed, no Escape was needed: the one close
\* request came from the frame that received the thread's signal.
C7_Witness ==
    /\ Len(threads) = 1
    /\ threads[1].pc = "done"
    /\ threads[1].result = "err"
    /\ threads[1].delivered = 1
    /\ chan = <<>>
    /\ closeRequests = 1
    /\ phase # "open"

\* the step requests close because a frame received the completion signal
\* or because Escape was pressed in it
CloseCause == (Frame /\ chan # <<>>) \/ EscapeFrame

\* C8 (as claimed): window close is requested once at most over all
\* frames, and only by receipt of the completion signal or by Escape.
C8_CloseRequestedOnce ==
    [][ closeRequests' # closeRequests
        => (closeRequests = 0 /\ closeRequests' = 1 /\ CloseCause) ]_vars

\* C8 (amended): a frame requests window close at most once, and only when
\* it receives the completion signal or Escape is pressed in it; a frame the
\* toolkit still runs after a close request can request close again.
C8_CloseOncePerFrame ==
    [][ closeRequests' # closeRequests
        => (closeRequests' = closeRequests + 1 /\ CloseCause) ]_vars

\* C8 witness: close was requested by Escape and again in a later frame
\* that received the completion signal.
C8_Witness ==
    /\ closeRequests = 2
    /\ Len(threads) = 1
    /\ threads[1].delivered = 1
    /\ chan = <<>>
    /\ phase = "closing"

\* the normalizer as the specification words it
RECURSIVE RefDigits(_)
RefDigits(raw) ==
    IF raw = <<>>
    THEN <<>>
    ELSE (IF Head(raw) \in {"0", "1", "2", "3", "4", "5", "6", "7", "8", "9", "+"}
          THEN <<Head(raw)>>
          ELSE <<>>) \o RefDigits(Tail(raw))

RefNormalize(raw, cc_opt) ==
    LET digits == RefDigits(raw)
    IN  CASE digits # <<>> /\ digits[1] = "+" -> digits
          [] ~(digits # <<>> /\ digits[1] = "+") /\ cc_opt # None ->
                <<"+">> \o cc_opt[1]
                        \o (IF digits # <<>> /\ digits[1] = "0" THEN Tail(digits) ELSE digits)
          [] OTHER -> digits

\* C9: format_e164 agrees with the reference normalizer on every text the
\* field can hold, under every country-code setting, and the number a
\* dispatched thread carries is the reference normalization of the field
\* as it stood in the frame of the dispatch.
C9_FormatMatchesReference ==
    /\ [](\A raw \in Edits(input_text) :
              format_e164(raw) = RefNormalize(raw, country_code))
    /\ [][ Len(threads') > Len(threads)
           => threads'[Len(threads')].text = RefNormalize(input_text', country_code) ]_vars

\* C9 witness: with country code 49 the field "00" was dispatched as "+490":
\* exactly one leading zero was removed.
C9_Witness ==
    /\ Len(threads) = 1
    /\ country_code = Some(<<"4", "9">>)
    /\ input_text = <<"0", "0">>
    /\ threads[1].text = <<"+", "4", "9", "0">>

\* n with a single leading plus removed
StripOnePlus(n) == IF n # <<>> /\ n[1] = "+" THEN SubSeq(n, 2, Len(n)) ELSE n

\* n with all its leading pluses removed
StripLeadingPluses(n) ==
    LET k == Cardinality({i \in 1..Len(n) : \A j \in 1..i : n[j] = "+"})
    IN  SubSeq(n, k + 1, Len(n))

\* C10 (as claimed): the WhatsApp URL of every request is "https://wa.me/"
\* followed by the message with a single leading plus removed.
C10_WhatsAppStripsOnePlus ==
    \A j \in 1..Len(requests) :
        requests[j].whatsapp_url = Str_wa \o StripOnePlus(requests[j].message)

\* C10 (amended): the WhatsApp URL of every request is "https://wa.me/"
\* followed by the message with all of its leading pluses removed (one plus
\* when the number has one, the number unchanged when it has none).
C10_WhatsAppStripsLeadingPluses ==
    \A j \in 1..Len(requests) :
        requests[j].whatsapp_url = Str_wa \o StripLeadingPluses(requests[j].message)

\* C10 witness: a request went out for a number that starts with two pluses.
C10_Witness ==
    /\ Len(requests) = 1
    /\ Len(requests[1].message) >= 2
    /\ requests[1].message[1] = "+"
    /\ requests[1].message[2] = "+"
    /\ requests[1].whatsapp_url = Str_wa \o SubSeq(requests[1].message, 3, Len(requests[1].message))

\* C11: normalization is idempotent: for every text x the field can hold and
\* either country-code setting, when format_e164(x) is empty or begins with a
\* plus, normalizing it again returns it unchanged; so does normalizing again
\* the number a dispatched thread carries.
C11_NormalizeIdempotent ==
    /\ \A x \in Edits(input_text) :
           LET y == format_e164(x)
           IN  (y = <<>> \/ y[1] = "+") => format_e164(y) = y
    /\ \A i \in 1..Len(threads) :
           threads[i].text[1] = "+" => format_e164(threads[i].text) = threads[i].text

\* C11 witness: with country code 49 the field "01" was dispatched as "+491",
\* which normalizes to itself.
C11_Witness ==
    /\ Len(threads) = 1
    /\ country_code = Some(<<"4", "9">>)
    /\ input_text = <<"0", "1">>
    /\ threads[1].text = <<"+", "4", "9", "1">>
    /\ format_e164(threads[1].text) = threads[1].text

\* text without its leading and trailing whitespace, by positions
RefTrim(text) ==
    LET keep == {i \in 1..Len(text) : text[i] \notin {" ", "\t", "\n"}}
    IN  IF keep = {}
        THEN <<>>
        ELSE SubSeq(text,
                    CHOOSE i \in keep : \A j \in keep : i <= j,
                    CHOOSE i \in keep : \A j \in keep : j <= i)

RECURSIVE RefCountDigits(_)
RefCountDigits(s) ==
    IF s = <<>>
    THEN 0
    ELSE (IF Head(s) \in {"0", "1", "2", "3", "4", "5", "6", "7", "8", "9"} THEN 1 ELSE 0)
         + RefCountDigits(Tail(s))

\* the phone-shape heuristic as the specification words it
RefLooksLikePhone(text) ==
    LET s == RefTrim(text)
    IN  /\ s # <<>>
        /\ Len(s) <= 20
        /\ \A i \in 1..Len(s) :
               s[i] \in {"0", "1", "2", "3", "4", "5", "6", "7", "8", "9",
                         "+", "-", " ", "(", ")"}
        /\ RefCountDigits(s) >= 6

\* C12: looks_like_phone_number is true exactly when the trimmed text is
\* non-empty, at most 20 long, made only of digits and + - space ( ), and
\* holds at least 6 digits: on every clipboard text the probe can have read
\* when the window has just been built, and on every text the field can hold.
C12_HeuristicMatchesReference ==
    /\ should_focus =>
           \A c \in ClipboardSamples :
               c # None => (looks_like_phone_number(c[1]) <=> RefLooksLikePhone(c[1]))
    /\ \A text \in Edits(input_text) :
           looks_like_phone_number(text) <=> RefLooksLikePhone(text)

\* C12 witness: the window has just been built and the field holds a
\* clipboard text of exactly 20 characters, which the heuristic accepted.
C12_Witness ==
    /\ should_focus
    /\ Len(input_text) = 20
    /\ looks_like_phone_number(input_text)

\* C13: every outbound request carries "Authorization: Bearer <token>" when
\* auth_token is configured and no Authorization header when it is absent.
C13_AuthorizationHeader ==
    \A j \in 1..Len(requests) :
        /\ auth_token # None
           => requests[j].authorization
                = Some(<<"B", "e", "a", "r", "e", "r", " ">> \o auth_token[1])
        /\ auth_token = None => requests[j].authorization = None

\* C13 witness: with token "k" configured a request went out carrying
\* "Bearer k".
C13_Witness ==
    /\ Len(requests) = 1
    /\ auth_token = Some(<<"k">>)
    /\ requests[1].authorization = Some(<<"B", "e", "a", "r", "e", "r", " ", "k">>)

\* C14: the request of a submission is built from the one number normalized
\* in the frame Enter was pressed: a new thread carries format_e164 of the
\* field as that frame left it, a thread's number never changes afterwards,
\* the title, message and the three action URLs of its request all come from
\* that number, and a request once sent is not altered, whatever is typed
\* into the field meanwhile.
C14_RequestFromOneNormalization ==
    /\ [](\A j \in 1..Len(requests) :
              /\ j <= Len(threads)
              /\ requests[j].title = <<"C", "a", "l", "l", " ">> \o threads[j].text
              /\ requests[j].message = threads[j].text
              /\ requests[j].call_url = <<"t", "e", "l", ":">> \o threads[j].text
              /\ requests[j].sms_url = <<"s", "m", "s", ":">> \o threads[j].text
              /\ requests[j].whatsapp_url
                   = Str_wa \o StripLeadingPluses(threads[j].text))
    /\ [][ /\ \A i \in 1..Len(threads) :
                i <= Len(threads') /\ threads'[i].text = threads[i].text
           /\ \A j \in 1..Len(requests) :
                j <= Len(requests') /\ requests'[j] = requests[j]
           /\ Len(threads') > Len(threads)
                => threads'[Len(threads')].text = format_e164(input_text') ]_vars

\* C14 witness: the request is out while the field has since been edited to
\* something that normalizes differently.
C14_Witness ==
    /\ Len(requests) = 1
    /\ threads[1].pc = "returned"
    /\ requests[1].message = threads[1].text
    /\ input_text = <<"a">>
    /\ threads[1].text = <<"0", "1">>

\* a request is in flight: its thread has not yet sent the completion signal
InFlight == \E i \in 1..Len(threads) : threads[i].pc # "done"

\* Escape pressed while a request is in flight requests close in that very
\* frame and leaves the thread as it is
EscapeClosesWithoutWaiting ==
    [][ (InFlight /\ EscapeFrame)
        => (closeRequests' = closeRequests + 1 /\ threads' = threads) ]_vars

\* a send made after the receiver was dropped puts nothing on the channel
\* and lets the thread finish
SendToDroppedReceiverDiscarded ==
    [][ \A i \in 1..Len(threads) :
          (phase = "closed" /\ threads[i].pc = "returned" /\ threads'[i] # threads[i])
          => (threads'[i].pc = "done" /\ threads'[i].delivered = 0 /\ chan' = chan) ]_vars

\* C15 (as claimed): Escape during a request closes the window at once, the
\* worker still runs its HTTP call to completion, its signal to the closed
\* receiver is discarded without error or blocking, and the worker exits:
\* so no worker is left unfinished when the process is gone.
C15_WorkerRunsToCompletion ==
    /\ EscapeClosesWithoutWaiting
    /\ SendToDroppedReceiverDiscarded
    /\ [](phase = "exited" => \A i \in 1..Len(threads) : threads[i].pc = "done")

\* C15 (amended): Escape during a request requests close in that frame
\* without waiting for the worker and without touching it; while the process
\* lives the worker is never blocked, and a signal sent to the dropped
\* receiver is discarded without error, after which the worker has exited
\* having sent once.  The worker is detached: when main returns after the
\* window is gone, a worker still in its HTTP call ends with the process.
C15_EscapeLeavesWorkerRunning ==
    /\ EscapeClosesWithoutWaiting
    /\ SendToDroppedReceiverDiscarded
    /\ [](\A i \in 1..Len(threads) :
              /\ (phase # "exited" /\ threads[i].pc # "done") => ENABLED ThreadStep
              /\ (threads[i].pc = "done" /\ threads[i].delivered = 0)
                 => (threads[i].sends = 1 /\ phase \in {"closed", "exited"}))

\* C15 witness: after Escape the window was torn down, the worker finished
\* its HTTP call and its one signal was discarded.
C15_Witness ==
    /\ Len(threads) = 1
    /\ threads[1].pc = "done"
    /\ threads[1].sends = 1
    /\ threads[1].delivered = 0
    /\ chan = <<>>
    /\ phase = "closed"
    /\ closeRequests = 1

\* what the specification says the probe returns for a clipboard content
RefProbe(clipboard) ==
    IF clipboard # None /\ RefLooksLikePhone(clipboard[1])
    THEN RefTrim(clipboard[1])
    ELSE <<>>

\* C16: when the window has just been built, the field holds the trimmed
\* clipboard text if that text passes the heuristic and is empty otherwise
\* (clipboard unavailable or text rejected): the probe returns exactly that
\* for every clipboard content, the field is one of those results, and it is
\* either empty or itself passes the heuristic.
C16_InitialFieldFromClipboard ==
    should_focus =>
        /\ \A c \in ClipboardSamples :
               check_clipboard_for_phone_number(c) = RefProbe(c)
        /\ input_text \in {RefProbe(c) : c \in ClipboardSamples}
        /\ input_text = <<>> \/ RefLooksLikePhone(input_text)

\* C16 witness: the clipboard held " 010+011 " and the new window's field
\* holds it trimmed.
C16_Witness ==
    /\ should_focus
    /\ input_text = <<"0", "1", "0", "+", "0", "1", "1">>
    /\ input_text = check_clipboard_for_phone_number(
                        Some(<<" ", "0", "1", "0", "+", "0", "1", "1", " ">>))

\* the retained characters of raw hold a plus, and none in first position
InteriorPlusOnly(raw) ==
    LET d == RefDigits(raw)
    IN  /\ d # <<>>
        /\ d[1] # "+"
        /\ \E i \in 2..Len(d) : d[i] = "+"

\* C17 (as claimed): for every field content whose retained characters have
\* a plus only at non-first positions, the normalizer returns the retained
\* characters unchanged.
C17_InteriorPlusUnchanged ==
    \A raw \in Edits(input_text) :
        InteriorPlusOnly(raw) => format_e164(raw) = RefDigits(raw)

\* C17 (amended): for such a field content the interior plus is always
\* kept: the result ends with the retained characters after the first one;
\* without a country code the result is the retained characters unchanged,
\* and with country code cc it is "+" cc followed by the retained characters
\* less one leading zero.
C17_InteriorPlusKept ==
    \A raw \in Edits(input_text) :
        InteriorPlusOnly(raw) =>
            LET d == RefDigits(raw)
                r == format_e164(raw)
            IN  /\ Len(r) >= Len(d) - 1
                /\ SubSeq(r, Len(r) - Len(d) + 2, Len(r)) = Tail(d)
                /\ country_code = None => r = d
                /\ country_code # None
                   => r = <<"+">> \o country_code[1]
                              \o (IF d[1] = "0" THEN Tail(d) ELSE d)

\* C17 witness: without a country code the field "1+" was dispatched as "1+".
C17_Witness ==
    /\ country_code = None
    /\ Len(threads) = 1
    /\ input_text = <<"1", "+">>
    /\ threads[1].text = <<"1", "+">>

\* C18: with a country code configured, format_e164 of every text the field
\* can hold (texts without digits and the empty text included) is non-empty
\* and begins with a plus; and the first Enter press on a non-empty field
\* while Idle, the sender still being there, dispatches a publish thread.
C18_CountryCodeAlwaysDispatches ==
    /\ [](country_code # None =>
              \A raw \in Edits(input_text) :
                  format_e164(raw) # <<>> /\ format_e164(raw)[1] = "+")
    /\ [][ \A new_text \in Edits(input_text) :
             ( /\ country_code # None
               /\ http_sender # None
               /\ ~waiting_for_response
               /\ threads = <<>>
               /\ new_text # <<>>
               /\ EnterFrame(new_text) )
             => (Len(threads') = 1 /\ waiting_for_response') ]_vars

\* C18 witness: with country code 49 a field holding only a letter was
\* dispatched as "+49".
C18_Witness ==
    /\ country_code = Some(<<"4", "9">>)
    /\ Len(threads) = 1
    /\ input_text = <<"a">>
    /\ threads[1].text = <<"+", "4", "9">>
    /\ waiting_for_response

\* C19: a frame in which Enter is pressed while the field is empty changes
\* nothing an Enter press could change: no thread is spawned, nothing is
\* sent, waiting_for_response, the sender and the configuration stay as they
\* were and the field stays empty; the frame does exactly what the same
\* frame without the Enter press does.
C19_EnterOnEmptyFieldNoEffect ==
    [][ (chan = <<>> /\ EnterFrame(<<>>))
        => /\ UNCHANGED <<http_sender, waiting_for_response, threads, requests,
                          chan, auth_token, country_code>>
           /\ input_text' = <<>>
           /\ \E escape \in BOOLEAN : update(<<>>, FALSE, FALSE, escape) ]_vars

\* C19 witness: frames have run on an empty field of the open window, and
\* the sender is still there with nothing dispatched.
C19_Witness ==
    /\ ~should_focus
    /\ input_text = <<>>
    /\ http_sender # None
    /\ ~waiting_for_response
    /\ threads = <<>>
    /\ phase = "open"

====
